---- MODULE Spec2Model ----
(***************************************************************************)
(* A model of src/app.py: the GenerateVideo pipeline.  generate() asks for *)
(* a narration, derives image prompts from the text model's response,      *)
(* synthesizes one image file per prompt, assembles the video and removes  *)
(* the intermediate image files.  Texts are sequences of one-character     *)
(* strings; the filesystem is a function from paths to file contents.      *)
(***************************************************************************)
EXTENDS Integers, Sequences, FiniteSets, TLC

VARIABLES
    pc,            \* position of the run inside generate / _generate_prompts
    num_prompts,   \* argument of generate
    output_path,   \* argument of generate
    response,      \* text returned by self.llm.generate
    prompts,       \* result of _generate_prompts
    image_files,   \* the list accumulated by generate's loop
    duration,      \* audio_clip.duration
    image_clips,   \* the clips built from image_files: [img, duration]
    video,         \* what write_videofile put into the container
    fs,            \* filesystem: path -> file content
    calls,         \* outbound requests issued so far
    removed,       \* the os.remove calls made so far: [path, raised]
    error,         \* the exception that left generate, "" when none
    result,        \* the value generate returned, "" when none
    environ,       \* os.environ: HF_API_KEY and GROQ_API_KEY
    self,          \* the attributes __init__ sets
    image_call,    \* _generate_image on its own: the call's outcomes, else <<>>
    fs0            \* the filesystem when the run began

vars == <<pc, num_prompts, output_path, response, prompts, image_files,
          duration, image_clips, video, fs, calls, removed, error, result,
          environ, self, image_call, fs0>>

----------------------------------------------------------------------------
(* Bounds *)

MaxPrompts == 3     \* num_prompts ranges over 0..MaxPrompts
MaxRespLen == 5     \* length of the responses the prompt parser is run on
MaxCount == 2       \* counts the prompt parser is run with

----------------------------------------------------------------------------
(* Texts *)

Min(a, b) == IF a <= b THEN a ELSE b
Max(a, b) == IF a >= b THEN a ELSE b

NL == "\n"
Whitespace == {" ", "\t", "\r", NL}
Alphabet == {NL, " ", "#", "1", "0", ".", "a"}

\* str.split('\n')
RECURSIVE split(_)
split(s) ==
    IF \A k \in 1..Len(s) : s[k] # NL
    THEN <<s>>
    ELSE LET k == CHOOSE j \in 1..Len(s) :
                      s[j] = NL /\ \A h \in 1..(j - 1) : s[h] # NL
         IN  <<SubSeq(s, 1, k - 1)>> \o split(SubSeq(s, k + 1, Len(s)))

RECURSIVE lstrip(_)
lstrip(s) ==
    IF s # <<>> /\ Head(s) \in Whitespace THEN lstrip(Tail(s)) ELSE s

RECURSIVE rstrip(_)
rstrip(s) ==
    IF s # <<>> /\ s[Len(s)] \in Whitespace
    THEN rstrip(SubSeq(s, 1, Len(s) - 1))
    ELSE s

\* str.strip()
strip(s) == rstrip(lstrip(s))

\* the tuple handed to line.startswith on line 41
Markers == << <<"#">>, <<"1", ".">>, <<"2", ".">>, <<"3", ".">>, <<"4", ".">>,
              <<"5", ".">>, <<"6", ".">>, <<"7", ".">>, <<"8", ".">>,
              <<"9", ".">>, <<"1", "0", ".">> >>

\* str.startswith(tuple)
startswith(s, prefixes) ==
    \E k \in 1..Len(prefixes) :
        /\ Len(s) >= Len(prefixes[k])
        /\ SubSeq(s, 1, Len(prefixes[k])) = prefixes[k]

\* as KeepLine, without the test that the line is not empty
KeepLine_any(line) == ~startswith(line, Markers)

\* the guard of line 41
KeepLine(line) == line # <<>> /\ ~startswith(line, Markers)

\* the loop of lines 38-42 over the lines still to visit
RECURSIVE ExtractPrompts(_, _)
ExtractPrompts(lines, acc) ==
    IF lines = <<>>
    THEN acc
    ELSE LET line == strip(Head(lines))
         IN  ExtractPrompts(Tail(lines),
                            IF KeepLine(line) THEN Append(acc, line) ELSE acc)

\* the slice xs[:n]
SliceTo(xs, n) ==
    IF n >= 0
    THEN SubSeq(xs, 1, Min(n, Len(xs)))
    ELSE SubSeq(xs, 1, Max(Len(xs) + n, 0))

_generate_prompts(text, n) == SliceTo(ExtractPrompts(split(text), <<>>), n)

----------------------------------------------------------------------------
(* Files *)

\* f"output_{i}.png"
OutputFile(k) == "output_" \o ToString(k) \o ".png"

AudioPath == "podcast.wav"
DefaultOutput == "final_video.mp4"
OutputPaths == {DefaultOutput, OutputFile(1)}
Paths == {OutputFile(k) : k \in 1..(MaxPrompts + 1)} \cup OutputPaths \cup {AudioPath}

Absent == [kind |-> "absent", of |-> <<>>]
Old == [kind |-> "old", of |-> <<>>]
Audio(d) == [kind |-> "audio", of |-> <<d>>]
RealImage(prompt) == [kind |-> "image", of |-> prompt]
Placeholder == [kind |-> "placeholder", of |-> <<>>]
VideoFile == [kind |-> "video", of |-> <<>>]
PartialVideo == [kind |-> "partial", of |-> <<>>]
Truncated == [kind |-> "truncated", of |-> <<>>]

exists(path) == fs[path].kind # "absent"

\* files left behind by earlier runs
Leftovers == {OutputFile(1), OutputFile(MaxPrompts + 1), DefaultOutput}

----------------------------------------------------------------------------
(* Exact arithmetic on durations: a quotient is a reduced fraction *)

RECURSIVE GCD(_, _)
GCD(a, b) == IF b = 0 THEN a ELSE GCD(b, a % b)

Frac(n, d) == LET g == GCD(n, d) IN [num |-> n \div g, den |-> d \div g]

ZeroDivisionError == [num |-> 0, den |-> 0]

\* a / b
TrueDiv(a, b) == IF b = 0 THEN ZeroDivisionError ELSE Frac(a, b)

FracAdd(x, y) == Frac(x.num * y.den + y.num * x.den, x.den * y.den)

\* np.cumsum([0] + [c.duration for c in clips])
RECURSIVE cumsum(_, _)
cumsum(clips, k) ==
    IF k = 0
    THEN Frac(0, 1)
    ELSE FracAdd(cumsum(clips, k - 1), clips[k].duration)

----------------------------------------------------------------------------
(* The collaborators' answers *)

Durations == {7, 12}

\* texts the language model answers with inside generate
Responses ==
    { <<"a", NL, "a", "a", NL, "a", "a", "a", NL, "a">>,
      <<"#", "a", NL, "1", ".", "a", NL, " ", "a", " ", NL, NL, "1", "0", ".", NL, "a", "a">>,
      <<"1", ".", "a", NL, "#">>,
      <<>> }

PNG == <<137, 80, 78, 71>>
JPEG == <<255, 216, 255>>

\* payloads of the image service: a PNG, a JPEG, an HTML page, a cut-off header
Payloads == { PNG \o <<13, 10>>, JPEG \o <<224>>, <<60, 104>>, <<137, 80>>, <<>> }

NoResponse == 0

\* what requests.post does: raises, or answers with a status and a body
ImageResponses ==
    [raises : {FALSE}, status_code : {200, 401, 503}, content : Payloads]
        \cup [raises : {TRUE}, status_code : {NoResponse}, content : {<<>>}]

\* os.getenv of a variable that is not set; f"Bearer {None}" is "Bearer None"
None == "None"
Secret == "hf_k"
EnvValues == {None, "", Secret}

\* the image service answers 401 unless the bearer token is the account's
ImageResponsesTo(headers) ==
    {resp \in ImageResponses :
        resp.raises \/ (resp.status_code = 401) =
                          (headers.Authorization # "Bearer " \o Secret)}

\* what the two Image.save calls and Image.open do
ImageIO == [decodes : BOOLEAN, saves : BOOLEAN, placeholder_saves : BOOLEAN]

\* as QueryRaises, without the status check of line 50
QueryRaises_no_status(resp) == resp.raises

\* query (lines 47-54) raises
QueryRaises(resp) == resp.raises \/ resp.status_code # 200

\* as ValidImageData, accepting any payload that is not empty
ValidImageData_nonempty(image_bytes) == image_bytes # <<>>

\* the check of line 59
ValidImageData(image_bytes) ==
    startswith(image_bytes, <<PNG>>) \/ startswith(image_bytes, <<JPEG>>)

\* the try block (lines 57-66) reaches its return
TrySucceeds(resp, io) ==
    /\ ~QueryRaises(resp)
    /\ ValidImageData(resp.content)
    /\ io.decodes
    /\ io.saves

\* as _generate_image, with a fallback branch that forgets to return the path
_generate_image_no_return(prompt, output_file, resp, io, left) ==
    IF TrySucceeds(resp, io)
    THEN [raised |-> FALSE, returns |-> output_file, file |-> RealImage(prompt)]
    ELSE IF io.placeholder_saves
         THEN [raised |-> FALSE, returns |-> "", file |-> Placeholder]
         ELSE [raised |-> TRUE, returns |-> "", file |-> left]

\* as _generate_image, with a fallback branch that returns the path without
\* saving the placeholder
_generate_image_unsaved(prompt, output_file, resp, io, left) ==
    IF TrySucceeds(resp, io)
    THEN [raised |-> FALSE, returns |-> output_file, file |-> RealImage(prompt)]
    ELSE [raised |-> FALSE, returns |-> output_file, file |-> left]

\* _generate_image: whether it raises, and the file it leaves at output_file
\* (a save that fails leaves the file as it was, or leaves a cut-off file)
_generate_image(prompt, output_file, resp, io, left) ==
    IF TrySucceeds(resp, io)
    THEN [raised |-> FALSE, returns |-> output_file, file |-> RealImage(prompt)]
    ELSE IF io.placeholder_saves
         THEN [raised |-> FALSE, returns |-> output_file, file |-> Placeholder]
         ELSE [raised |-> TRUE, returns |-> "", file |-> left]

----------------------------------------------------------------------------
(* generate *)

NoVideo == [segments |-> <<>>, audio |-> <<>>]

NoCalls == [download |-> 0, narration |-> 0, text |-> 0, image |-> <<>>]

\* no attribute is set and no collaborator exists before __init__
NotConstructed ==
    [hf_api_key |-> None, groq_api_key |-> None,
     headers |-> [Authorization |-> ""],
     llm |-> FALSE, podcast_generator |-> FALSE]

\* lines 17-18: the keys read from the environment
WithKeys(env) ==
    [NotConstructed EXCEPT !.hf_api_key = env.HF_API_KEY,
                           !.groq_api_key = env.GROQ_API_KEY]

\* lines 23-29: the header and the two collaborators
Constructed(env) ==
    [WithKeys(env) EXCEPT
        !.headers = [Authorization |-> "Bearer " \o env.HF_API_KEY],
        !.llm = TRUE,
        !.podcast_generator = TRUE]

Init ==
    /\ pc = "init"
    /\ num_prompts \in 0..MaxPrompts
    /\ output_path \in OutputPaths
    /\ response = <<>>
    /\ prompts = <<>>
    /\ image_files = <<>>
    /\ duration = 0
    /\ image_clips = <<>>
    /\ video = NoVideo
    /\ \E dirty \in BOOLEAN :
           fs = [p \in Paths |-> IF dirty /\ p \in Leftovers THEN Old ELSE Absent]
    /\ calls = NoCalls
    /\ removed = <<>>
    /\ error = ""
    /\ result = ""
    /\ environ \in [HF_API_KEY : EnvValues, GROQ_API_KEY : EnvValues]
    /\ self = NotConstructed
    /\ image_call = <<>>
    /\ fs0 = fs

\* as Raise, for a generate that swallows the exception and returns
Raise_swallowed(e) == pc' = "done" /\ error' = e

\* an exception leaves generate
Raise(e) == pc' = "failed" /\ error' = e

\* as MissingKey, testing the image credential instead
MissingKey_hf(obj) == obj.hf_api_key \in {None, ""}

\* line 20: not self.groq_api_key
MissingKey(obj) == obj.groq_api_key \in {None, ""}

\* lines 15-31: __init__
Construct ==
    /\ pc = "init"
    /\ IF MissingKey(WithKeys(environ))
       THEN /\ self' = WithKeys(environ)
            /\ Raise("ValueError: Missing GROQ_API_KEY")
            /\ UNCHANGED <<calls, environ>>
       ELSE /\ self' = Constructed(environ)
            /\ environ' = [environ EXCEPT !.GROQ_API_KEY = self'.groq_api_key]
            /\ calls' = [calls EXCEPT !.download = @ + 1]
            /\ \/ pc' = "narration" /\ error' = error
               \/ Raise("DownloadError")
    /\ UNCHANGED <<num_prompts, output_path, response, prompts, image_files,
                   duration, image_clips, video, fs, removed, result,
                   image_call, fs0>>

\* as Narrate, asking again when the narration fails
Narrate_retrying ==
    /\ pc = "narration"
    /\ calls' = [calls EXCEPT !.narration = @ + 1]
    /\ \/ \E d \in Durations :
              /\ fs' = [fs EXCEPT ![AudioPath] = Audio(d)]
              /\ pc' = "prompts"
       \/ pc' = "narration" /\ fs' = fs
    /\ UNCHANGED <<num_prompts, output_path, response, prompts, image_files,
                   duration, image_clips, video, removed, result, error>>
    /\ UNCHANGED <<environ, self, image_call, fs0>>

\* line 79: self.podcast_generator.generate(topic=topic)
Narrate ==
    /\ pc = "narration"
    /\ calls' = [calls EXCEPT !.narration = @ + 1]
    /\ \/ \E d \in Durations :
              /\ fs' = [fs EXCEPT ![AudioPath] = Audio(d)]
              /\ pc' = "prompts"
              /\ error' = error
       \/ Raise("NarrationError") /\ fs' = fs
    /\ UNCHANGED <<num_prompts, output_path, response, prompts, image_files,
                   duration, image_clips, video, removed, result>>
    /\ UNCHANGED <<environ, self, image_call, fs0>>

\* line 83: self._generate_prompts(topic, num_prompts), and the loop of line 88
\* is entered or skipped
GeneratePrompts ==
    /\ pc = "prompts"
    /\ calls' = [calls EXCEPT !.text = @ + 1]
    /\ \/ \E text \in Responses :
              /\ response' = text
              /\ prompts' = _generate_prompts(text, num_prompts)
              /\ pc' = IF prompts' = <<>> THEN "audio" ELSE "images"
              /\ error' = error
       \/ Raise("TextGenerationError") /\ UNCHANGED <<response, prompts>>
    /\ UNCHANGED <<num_prompts, output_path, image_files, duration,
                   image_clips, video, fs, removed, result>>
    /\ UNCHANGED <<environ, self, image_call, fs0>>

\* as LoopNext, for a loop that stops one prompt early
LoopNext_short(i) == IF i >= Len(prompts) - 1 THEN "audio" ELSE "images"

\* line 88: after turn i the loop goes on, or ends and line 93 is reached
LoopNext(i) == IF i = Len(prompts) THEN "audio" ELSE "images"

\* lines 88-91: one turn of the loop, given what the service and the file
\* writes do
GenerateImageWith(resp, io, left) ==
    /\ pc = "images"
    /\ LET i == Len(image_files) + 1
           output_file == OutputFile(i)
           r == _generate_image(prompts[i], output_file, resp, io, left)
       IN  /\ calls' = [calls EXCEPT !.image = Append(@,
                            [inputs |-> prompts[i],
                             status_code |-> resp.status_code])]
           /\ fs' = [fs EXCEPT ![output_file] = r.file]
           /\ IF r.raised
              THEN Raise("OSError") /\ image_files' = image_files
              ELSE /\ image_files' = Append(image_files, r.returns)
                   /\ pc' = LoopNext(i)
                   /\ error' = error
    /\ UNCHANGED <<num_prompts, output_path, response, prompts, duration,
                   image_clips, video, removed, result>>
    /\ UNCHANGED <<environ, self, image_call, fs0>>

\* lines 88-91: one turn of the loop
GenerateImage ==
    \E resp \in ImageResponsesTo(self.headers), io \in ImageIO,
       left \in {fs[OutputFile(Len(image_files) + 1)], Truncated} :
        GenerateImageWith(resp, io, left)

\* line 95: mpy.AudioFileClip(audio_path)
LoadAudio ==
    /\ pc = "audio"
    /\ \/ /\ duration' = fs[AudioPath].of[1]
          /\ pc' = "clips"
          /\ error' = error
       \/ Raise("AudioError") /\ duration' = duration
    /\ UNCHANGED <<num_prompts, output_path, response, prompts, image_files,
                   image_clips, video, fs, calls, removed, result>>
    /\ UNCHANGED <<environ, self, image_call, fs0>>

\* as ClipDuration, dividing by the number of prompts asked for
ClipDuration_by_request(img) == TrueDiv(duration, num_prompts)

\* the element expression of lines 96-97, evaluated once per image
ClipDuration(img) == TrueDiv(duration, Len(image_files))

\* lines 96-97: the list of ImageClips
BuildClips ==
    /\ pc = "clips"
    /\ IF \E k \in 1..Len(image_files) :
              ClipDuration(image_files[k]) = ZeroDivisionError
       THEN Raise("ZeroDivisionError") /\ image_clips' = image_clips
       ELSE \/ /\ image_clips' =
                     [k \in 1..Len(image_files) |->
                         [img |-> fs[image_files[k]],
                          duration |-> ClipDuration(image_files[k])]]
               /\ pc' = "write"
               /\ error' = error
            \/ /\ image_files # <<>>
               /\ Raise("ImageClipError")
               /\ image_clips' = image_clips
    /\ UNCHANGED <<num_prompts, output_path, response, prompts, image_files,
                   duration, video, fs, calls, removed, result>>
    /\ UNCHANGED <<environ, self, image_call, fs0>>

\* line 99: clip k of the chain runs from the sum of the durations before it
concatenate_videoclips(clips) ==
    [k \in 1..Len(clips) |->
        [img |-> clips[k].img,
         start |-> cumsum(clips, k - 1),
         end |-> cumsum(clips, k)]]

\* lines 99-101: concatenate (which rejects an empty list), set_audio, write
WriteVideo ==
    /\ pc = "write"
    /\ IF image_clips = <<>>
       THEN Raise("ValueError") /\ UNCHANGED <<video, fs>>
       ELSE \/ /\ video' = [segments |-> concatenate_videoclips(image_clips),
                            audio |-> <<[start |-> Frac(0, 1),
                                         duration |-> Frac(duration, 1)]>>]
               /\ fs' = [fs EXCEPT ![output_path] = VideoFile]
               /\ pc' = IF image_files = <<>> THEN "done" ELSE "cleanup"
               /\ error' = error
            \/ /\ Raise("WriteError")
               /\ video' = video
               /\ \E left \in {fs[output_path], PartialVideo} :
                      fs' = [fs EXCEPT ![output_path] = left]
    /\ result' = IF pc' = "done" THEN output_path ELSE result
    /\ UNCHANGED <<num_prompts, output_path, response, prompts, image_files,
                   duration, image_clips, calls, removed>>
    /\ UNCHANGED <<environ, self, image_call, fs0>>

\* as os_remove, for a cleanup that deletes nothing
os_remove_nothing(files, path) == files

\* os.remove(path) when it succeeds
os_remove(files, path) == [files EXCEPT ![path] = Absent]

\* as RemoveFile, without the try/except of lines 105-108
RemoveFile_unguarded ==
    /\ pc = "cleanup"
    /\ LET k == Len(removed) + 1
           img_file == image_files[k]
       IN  \/ /\ exists(img_file)
              /\ fs' = os_remove(fs, img_file)
              /\ removed' = Append(removed, [path |-> img_file, raised |-> FALSE])
              /\ pc' = IF k = Len(image_files) THEN "done" ELSE "cleanup"
              /\ error' = error
           \/ /\ fs' = fs
              /\ removed' = Append(removed, [path |-> img_file, raised |-> TRUE])
              /\ Raise("RemoveError")
    /\ result' = IF pc' = "done" THEN output_path ELSE result
    /\ UNCHANGED <<num_prompts, output_path, response, prompts, image_files,
                   duration, image_clips, video, calls>>
    /\ UNCHANGED <<environ, self, image_call, fs0>>

\* lines 104-110: one turn of the cleanup loop; after the last one, return.
\* An os.remove that raises is swallowed by lines 107-108.
RemoveFile ==
    /\ pc = "cleanup"
    /\ LET k == Len(removed) + 1
           img_file == image_files[k]
       IN  /\ \/ /\ exists(img_file)
                 /\ fs' = os_remove(fs, img_file)
                 /\ removed' = Append(removed, [path |-> img_file, raised |-> FALSE])
              \/ /\ fs' = fs
                 /\ removed' = Append(removed, [path |-> img_file, raised |-> TRUE])
           /\ pc' = IF k = Len(image_files) THEN "done" ELSE "cleanup"
    /\ result' = IF pc' = "done" THEN output_path ELSE result
    /\ UNCHANGED <<num_prompts, output_path, response, prompts, image_files,
                   duration, image_clips, video, calls, error>>
    /\ UNCHANGED <<environ, self, image_call, fs0>>

Next ==
    \/ Construct
    \/ Narrate
    \/ GeneratePrompts
    \/ GenerateImage
    \/ LoadAudio
    \/ BuildClips
    \/ WriteVideo
    \/ RemoveFile

Spec == Init /\ [][Next]_vars

----------------------------------------------------------------------------
(* _generate_prompts on its own: every response text of at most MaxRespLen *)
(* characters, every count in 1..MaxCount                                  *)

Texts == UNION {[1..n -> Alphabet] : n \in 0..MaxRespLen}

InitPrompts ==
    /\ pc = "derive"
    /\ num_prompts \in 1..MaxCount
    /\ response \in Texts
    /\ output_path = DefaultOutput
    /\ prompts = <<>>
    /\ image_files = <<>>
    /\ duration = 0
    /\ image_clips = <<>>
    /\ video = NoVideo
    /\ fs = [p \in Paths |-> Absent]
    /\ calls = NoCalls
    /\ removed = <<>>
    /\ error = ""
    /\ result = ""
    /\ environ = [HF_API_KEY |-> Secret, GROQ_API_KEY |-> Secret]
    /\ self = Constructed(environ)
    /\ image_call = <<>>
    /\ fs0 = fs

\* lines 35-44 with the response already received
DerivePrompts ==
    /\ pc = "derive"
    /\ prompts' = _generate_prompts(response, num_prompts)
    /\ calls' = [calls EXCEPT !.text = @ + 1]
    /\ pc' = "derived"
    /\ UNCHANGED <<num_prompts, output_path, response, image_files, duration,
                   image_clips, video, fs, removed, error, result>>
    /\ UNCHANGED <<environ, self, image_call, fs0>>

NextPrompts == DerivePrompts

SpecPrompts == InitPrompts /\ [][NextPrompts]_vars

----------------------------------------------------------------------------
(* _generate_image on its own: one call for output_1.png, for every answer *)
(* of the image service and every outcome of the decoding and the writes   *)

ImagePrompts == { <<"a">>, <<"a", "a">> }

InitImage ==
    /\ pc = "images"
    /\ num_prompts = 1
    /\ output_path = DefaultOutput
    /\ response \in ImagePrompts
    /\ prompts = <<response>>
    /\ image_files = <<>>
    /\ duration = 0
    /\ image_clips = <<>>
    /\ video = NoVideo
    /\ \E dirty \in BOOLEAN :
           fs = [p \in Paths |-> IF dirty /\ p \in Leftovers THEN Old ELSE Absent]
    /\ calls = NoCalls
    /\ removed = <<>>
    /\ error = ""
    /\ result = ""
    /\ environ = [HF_API_KEY |-> Secret, GROQ_API_KEY |-> Secret]
    /\ self = Constructed(environ)
    /\ \E resp \in ImageResponses, io \in ImageIO,
          left \in {fs[OutputFile(1)], Truncated} :
           image_call = <<[resp |-> resp, io |-> io, left |-> left]>>
    /\ fs0 = fs

\* line 90 with the outcomes of the call fixed beforehand
SynthesizeImage ==
    /\ image_call # <<>>
    /\ GenerateImageWith(image_call[1].resp, image_call[1].io, image_call[1].left)

NextImage == SynthesizeImage

SpecImage == InitImage /\ [][NextImage]_vars

----------------------------------------------------------------------------
(* Properties *)

AssemblyErrors ==
    {"AudioError", "ZeroDivisionError", "ImageClipError", "ValueError", "WriteError"}

Exited == pc \in {"done", "failed"}

\* the loop of lines 88-91 has run to its end
ImagesDone ==
    \/ pc \in {"audio", "clips", "write", "cleanup", "done"}
    \/ pc = "failed" /\ error \in AssemblyErrors

WasRemoved(path) == \E j \in 1..Len(removed) : removed[j].path = path

\* C1: in every run that reaches video assembly, by the time generate exits
\* (normally or with an error) os.remove has been called on every
\* intermediate image file the run created.
C1_CleanupAttemptedOnEveryExit ==
    (Exited /\ ImagesDone) =>
        \A k \in 1..Len(image_files) : WasRemoved(image_files[k])

\* C2: a run whose prompt list is empty (num_prompts = 0, or nothing survives
\* the filter) and that gets as far as building the video does not end with a
\* ZeroDivisionError; it ends with a dedicated zero-prompts error.
C2_ZeroPromptsReported ==
    (Exited /\ ImagesDone /\ prompts = <<>> /\ error # "AudioError") =>
        (pc = "failed" /\ error # "ZeroDivisionError" /\ error = "ZeroPromptsError")

\* C3: _generate_image never raises: whatever the image service answers and
\* whatever the file writes do, each call returns the path it was given and a
\* file exists at that path when it returns.
C3_GenerateImageNeverRaises ==
    /\ error # "OSError"
    /\ pc \in {"images", "audio"} =>
           \A k \in 1..Len(image_files) :
               image_files[k] = OutputFile(k) /\ exists(OutputFile(k))

\* C4: every prompt slot gets exactly one image: each turn of the loop asks
\* for an image of prompt i and appends output_<i>.png, and when the loop has
\* ended image_files has as many entries as prompts, the i-th file holding
\* the image made from prompt i or the placeholder.
C4_OneImagePerPrompt ==
    /\ Len(calls.image) \in {Len(image_files), Len(image_files) + 1}
    /\ Len(calls.image) = Len(image_files) + 1 => error = "OSError"
    /\ \A k \in 1..Len(image_files) :
           /\ image_files[k] = OutputFile(k)
           /\ calls.image[k].inputs = prompts[k]
           /\ pc \in {"images", "audio"} =>
                  fs[image_files[k]] \in {RealImage(prompts[k]), Placeholder}
    /\ ImagesDone =>
           /\ Len(image_files) = Len(prompts)
           /\ Len(calls.image) = Len(prompts)

C4_Witness ==
    /\ pc = "audio"
    /\ Len(prompts) = 3
    /\ fs[OutputFile(1)] = RealImage(prompts[1])
    /\ fs[OutputFile(2)] = Placeholder
    /\ fs[OutputFile(3)] = RealImage(prompts[3])

\* C5: image calls that fail with a non-200 status do not stop the run: the
\* failing slot gets the placeholder and the loop goes on, and in the video
\* of a run that returned (returning output_path) segment k shows the
\* placeholder when call k had a non-200 status, every segment that is not
\* the placeholder shows the image made from prompt k by a call that was
\* answered 200, and the segments are in prompt order.
C5_FailedCallsShowPlaceholder ==
    /\ pc = "done" => result = output_path
    /\ \A k \in 1..Len(image_files) :
           (calls.image[k].status_code # 200 /\ pc \in {"images", "audio"}) =>
               fs[image_files[k]] = Placeholder
    /\ error = "OSError" =>
           fs[OutputFile(Len(calls.image))].kind \notin {"image", "placeholder"}
    /\ pc \in {"cleanup", "done"} =>
           /\ Len(video.segments) = Len(prompts)
           /\ \A k \in 1..Len(prompts) :
                  LET img == video.segments[k].img
                      status == calls.image[k].status_code
                  IN  /\ status # 200 => img = Placeholder
                      /\ img # Placeholder =>
                             img = RealImage(prompts[k]) /\ status = 200

C5_Witness ==
    /\ pc = "done"
    /\ result = output_path
    /\ Len(prompts) = 3
    /\ calls.image[1].status_code = 200
    /\ calls.image[2].status_code = 503
    /\ calls.image[3].status_code = 200
    /\ video.segments[1].img = RealImage(prompts[1])
    /\ video.segments[2].img = Placeholder
    /\ video.segments[3].img = RealImage(prompts[3])

\* C6 as stated: after a run that returned, none of output_1.png ..
\* output_N.png exists.
C6_NoIntermediateFileLeft ==
    pc = "done" => \A k \in 1..Len(prompts) : ~exists(OutputFile(k))

\* C6 as amended: after a run that returned, os.remove has been called on
\* each of output_1.png .. output_N.png, and none of them exists except those
\* whose os.remove raised.
C6_NoIntermediateFileLeftUnlessRemoveFailed ==
    pc = "done" =>
        /\ Len(removed) = Len(prompts)
        /\ \A k \in 1..Len(prompts) :
               /\ removed[k].path = OutputFile(k)
               /\ exists(OutputFile(k)) => removed[k].raised

C6_Witness ==
    /\ pc = "done"
    /\ Len(prompts) = 2
    /\ removed[1].raised /\ exists(OutputFile(1))
    /\ ~removed[2].raised /\ ~exists(OutputFile(2))

\* C7: a failure of the narration call or of the text-generation call leaves
\* generate as an error, and at that point no image request has been issued,
\* no intermediate image file has been written and no video has been written
\* (after a narration failure the text-generation request was not issued
\* either).
C7_EarlyFailureProducesNothing ==
    error \in {"NarrationError", "TextGenerationError"} =>
        /\ pc = "failed"
        /\ result = ""
        /\ calls.image = <<>>
        /\ image_files = <<>>
        /\ video = NoVideo
        /\ \A p \in Paths \ {AudioPath} : fs[p] \in {Absent, Old}
        /\ error = "NarrationError" => calls.text = 0 /\ ~exists(AudioPath)

C7_Witness ==
    /\ pc = "failed"
    /\ error = "TextGenerationError"
    /\ calls.narration = 1
    /\ calls.text = 1
    /\ exists(AudioPath)

\* C8: when generate ends with an error, no video, complete or partly
\* written, is at output_path.
C8_NoOutputOnFailure ==
    pc = "failed" => fs[output_path].kind \notin {"video", "partial"}

\* the lines of a text, told from the positions of its line breaks
Cuts(text) == {0, Len(text) + 1} \cup {c \in 1..Len(text) : text[c] = NL}
NthCut(text, n) ==
    CHOOSE c \in Cuts(text) : Cardinality({d \in Cuts(text) : d < c}) = n - 1
LineCount(text) == Cardinality(Cuts(text)) - 1
LineAt(text, n) == SubSeq(text, NthCut(text, n) + 1, NthCut(text, n + 1) - 1)

\* a line without its leading and trailing whitespace
Trimmed(line) ==
    LET inked == {c \in 1..Len(line) : line[c] \notin Whitespace}
    IN  IF inked = {}
        THEN <<>>
        ELSE SubSeq(line, CHOOSE c \in inked : \A d \in inked : c <= d,
                          CHOOSE c \in inked : \A d \in inked : c >= d)

Digits1To9 == {"1", "2", "3", "4", "5", "6", "7", "8", "9"}

\* the trimmed line is not empty and starts neither with '#' nor with one of
\* '1.' .. '10.'
Survives(line) ==
    LET t == Trimmed(line)
    IN  /\ Len(t) >= 1
        /\ t[1] # "#"
        /\ ~(Len(t) >= 2 /\ t[1] \in Digits1To9 /\ t[2] = ".")
        /\ ~(Len(t) >= 3 /\ t[1] = "1" /\ t[2] = "0" /\ t[3] = ".")

Survivors(text) == {n \in 1..LineCount(text) : Survives(LineAt(text, n))}
NthSurvivor(text, n) ==
    CHOOSE j \in Survivors(text) :
        Cardinality({h \in Survivors(text) : h < j}) = n - 1

\* C9: for every response text and every count k >= 1, _generate_prompts
\* returns the first min(k, m) of the m surviving lines, trimmed, in the
\* order of the response and with repetitions kept; so it returns at most k
\* entries, none empty and none starting with '#' or '1.' .. '10.'.
C9_PromptsAreFirstSurvivingLines ==
    pc = "derived" =>
        LET m == Cardinality(Survivors(response))
        IN  /\ Len(prompts) = Min(num_prompts, m)
            /\ Len(prompts) \in 0..num_prompts
            /\ \A n \in 1..Len(prompts) :
                   /\ prompts[n] = Trimmed(LineAt(response, NthSurvivor(response, n)))
                   /\ prompts[n] # <<>>
                   /\ ~startswith(prompts[n], Markers)

\* two surviving lines around a dropped one, cut down to a count of one
C9_Witness ==
    /\ pc = "derived"
    /\ num_prompts = 1
    /\ Survivors(response) = {1, 3}
    /\ LineAt(response, 2) = <<"#">>
    /\ prompts = << <<"a">> >>

\* C10: the written video shows the N >= 1 images in the order of
\* image_files, image k over [(k-1)*D/N, k*D/N) with D the audio duration,
\* each segment starting where the one before ends, the last one ending at D,
\* and the audio track starts at 0 and lasts D.
C10_SegmentsSplitAudioDuration ==
    pc \in {"cleanup", "done"} =>
        LET N == Len(image_files)
            D == duration
            seg == video.segments
        IN  /\ N >= 1
            /\ Len(seg) = N
            /\ \A k \in 1..N :
                   /\ seg[k].img = image_clips[k].img
                   /\ seg[k].img \in {RealImage(prompts[k]), Placeholder}
                   /\ seg[k].start.num * N = (k - 1) * D * seg[k].start.den
                   /\ seg[k].end.num * N = k * D * seg[k].end.den
                   /\ seg[k].start.den > 0 /\ seg[k].end.den > 0
                   /\ k < N => seg[k].end = seg[k + 1].start
            /\ seg[1].start = Frac(0, 1)
            /\ seg[N].end = Frac(D, 1)
            /\ video.audio = <<[start |-> Frac(0, 1), duration |-> Frac(D, 1)]>>

\* three prompts asked for, two derived, seven seconds of audio
C10_Witness ==
    /\ pc = "done"
    /\ num_prompts = 3
    /\ Len(image_files) = 2
    /\ duration = 7
    /\ video.segments[1].end = [num |-> 7, den |-> 2]
    /\ video.segments[2].start = [num |-> 7, den |-> 2]
    /\ video.segments[2].end = [num |-> 7, den |-> 1]

\* the payload starts with the PNG signature or with the JPEG signature
SignatureMatches(bytes) ==
    \/ Len(bytes) >= 4 /\ bytes[1] = 137 /\ bytes[2] = 80
                       /\ bytes[3] = 78 /\ bytes[4] = 71
    \/ Len(bytes) >= 3 /\ bytes[1] = 255 /\ bytes[2] = 216 /\ bytes[3] = 255

\* C11: a 200 answer whose payload starts with neither the PNG nor the JPEG
\* signature is handled exactly as a non-200 answer with the same payload:
\* the placeholder is written to the destination path and that path is
\* returned (when the placeholder cannot be written, both cases raise alike);
\* the real payload is at the destination path exactly when the status is
\* 200, the signature matches, the decoding succeeds and the save succeeds.
C11_InvalidPayloadFallsBack ==
    (image_call # <<>> /\ pc # "images") =>
        LET c == image_call[1]
            path == OutputFile(1)
            invalid == /\ ~c.resp.raises
                       /\ c.resp.status_code = 200
                       /\ ~SignatureMatches(c.resp.content)
            refused == _generate_image(prompts[1], path,
                                       [c.resp EXCEPT !.status_code = 503],
                                       c.io, c.left)
        IN  /\ invalid =>
                   /\ fs[path] = refused.file
                   /\ (pc = "failed") = refused.raised
                   /\ pc # "failed" => image_files = <<refused.returns>>
                   /\ c.io.placeholder_saves =>
                          /\ pc = "audio"
                          /\ image_files = <<path>>
                          /\ fs[path] = Placeholder
            /\ fs[path] = RealImage(prompts[1]) <=>
                   /\ ~c.resp.raises
                   /\ c.resp.status_code = 200
                   /\ SignatureMatches(c.resp.content)
                   /\ c.io.decodes
                   /\ c.io.saves

\* an HTML page answered with status 200
C11_Witness ==
    /\ image_call # <<>>
    /\ pc = "audio"
    /\ image_call[1].resp.status_code = 200
    /\ image_call[1].resp.content = <<60, 104>>
    /\ image_call[1].io.decodes
    /\ image_files = <<OutputFile(1)>>
    /\ fs[OutputFile(1)] = Placeholder
    /\ fs0[OutputFile(1)] = Old

\* C12: an os.remove that raises during cleanup does not make generate fail
\* and does not stop the loop: os.remove is called on every entry of
\* image_files in order, and generate returns output_path.
C12_RemoveFailureSwallowed ==
    /\ (\E j \in 1..Len(removed) : removed[j].raised) =>
           pc \in {"cleanup", "done"} /\ error = ""
    /\ \A j \in 1..Len(removed) :
           j <= Len(image_files) /\ removed[j].path = image_files[j]
    /\ pc = "cleanup" => Len(removed) < Len(image_files)
    /\ pc = "done" => Len(removed) = Len(image_files) /\ result = output_path

C12_Witness ==
    /\ pc = "done"
    /\ result = output_path
    /\ Len(removed) = 3
    /\ removed[1].raised /\ exists(OutputFile(1))
    /\ ~removed[2].raised /\ ~exists(OutputFile(2))
    /\ removed[3].raised /\ exists(OutputFile(3))

\* C13: generate never deletes the narration audio file or the video at
\* output_path: once the narration has returned its file exists, and after
\* generate has returned the video is at output_path, whatever output_path
\* is.
C13_AudioAndVideoKept ==
    /\ (calls.narration = 1 /\ error # "NarrationError") => exists(AudioPath)
    /\ pc = "done" => fs[output_path] = VideoFile

\* the positions that may come next, a failure apart
Follows(at) ==
    CASE at = "init" -> {"narration"}
      [] at = "narration" -> {"prompts"}
      [] at = "prompts" -> {"images", "audio"}
      [] at = "images" -> {"images", "audio"}
      [] at = "audio" -> {"clips"}
      [] at = "clips" -> {"write"}
      [] at = "write" -> {"cleanup", "done"}
      [] at = "cleanup" -> {"cleanup", "done"}
      [] OTHER -> {}

ImageWritten(k) == fs[OutputFile(k)] \in {RealImage(prompts[k]), Placeholder}

StepOrderState ==
    /\ calls.narration >= 1 => self.podcast_generator
    /\ calls.text >= 1 => calls.narration = 1 /\ exists(AudioPath)
    /\ calls.image # <<>> => calls.text = 1
    /\ \A k \in 2..Len(calls.image) : Len(image_files) >= k - 1
    /\ pc \in {"audio", "clips", "write"} =>
           /\ Len(image_files) = Len(prompts)
           /\ \A k \in 1..Len(prompts) : ImageWritten(k)
    /\ (pc \in {"clips", "write", "cleanup", "done"} \/ error \in AssemblyErrors)
           => Len(calls.image) = Len(prompts)
    /\ removed # <<>> => video # NoVideo
    /\ result # "" => pc = "done" /\ Len(removed) = Len(image_files)

StepOrderAction ==
    /\ pc' \in {pc, "failed"} \cup Follows(pc)
    /\ calls'.text > calls.text => pc = "prompts"
    /\ Len(calls'.image) > Len(calls.image) =>
           \A k \in 1..Len(calls.image) : ImageWritten(k)
    /\ (removed = <<>> /\ removed' # <<>>) => fs[output_path] = VideoFile
    /\ (result = "" /\ result' # "") => pc \in {"write", "cleanup"}

\* C14: the steps of a run come in the order narration, prompt derivation,
\* image synthesis, assembly, cleanup, return: the text request is issued
\* after the narration has returned, the image request for prompt i+1 after
\* the file of prompt i has been written, assembly starts when all N image
\* files exist, no os.remove happens before the video has been written, and
\* output_path is returned after the last os.remove.
C14_StrictStepOrder == [](StepOrderState) /\ [][StepOrderAction]_vars

C14_Witness ==
    /\ pc = "done"
    /\ result = output_path
    /\ Len(prompts) = 2
    /\ calls.narration = 1
    /\ calls.text = 1
    /\ Len(calls.image) = 2
    /\ Len(removed) = 2
    /\ video # NoVideo

\* C15: no request is repeated: a run issues at most one narration request
\* and at most one text-generation request, whether or not they fail, and
\* one image request per derived prompt, the k-th for prompt k, whatever the
\* answers are; when the loop over the prompts has ended exactly N image
\* requests have been issued for N prompts.
C15_NoRequestRepeated ==
    /\ calls.narration <= 1
    /\ calls.text <= 1
    /\ error = "NarrationError" => calls.narration = 1 /\ calls.text = 0
    /\ error = "TextGenerationError" => calls.text = 1
    /\ Len(calls.image) <= Len(prompts)
    /\ \A k \in 1..Len(calls.image) : calls.image[k].inputs = prompts[k]
    /\ pc = "images" => Len(calls.image) = Len(image_files)
    /\ ImagesDone => Len(calls.image) = Len(prompts)

\* three prompts, the first two requests failing
C15_Witness ==
    /\ pc = "done"
    /\ calls.narration = 1
    /\ calls.text = 1
    /\ Len(prompts) = 3
    /\ Len(calls.image) = 3
    /\ calls.image[1].status_code = 503
    /\ calls.image[2].status_code = NoResponse
    /\ calls.image[3].status_code = 200

NoTextCredential == environ.GROQ_API_KEY \in {None, ""}
NoImageCredential == environ.HF_API_KEY \in {None, ""}
CredentialError == "ValueError: Missing GROQ_API_KEY"

\* C16: without the text-generation credential the constructor raises
\* before a collaborator exists or a call is made; the image credential is
\* not needed to construct, and without it every image request is refused,
\* every slot gets the placeholder and a run that returns has N placeholder
\* segments.
C16_CredentialsAtConstruction ==
    /\ (pc # "init" /\ NoTextCredential) =>
           /\ pc = "failed"
           /\ error = CredentialError
           /\ ~self.llm
           /\ ~self.podcast_generator
           /\ calls = NoCalls
    /\ error = CredentialError => NoTextCredential
    /\ (pc # "init" /\ ~NoTextCredential) => self = Constructed(environ)
    /\ NoImageCredential =>
           /\ \A k \in 1..Len(calls.image) : calls.image[k].status_code # 200
           /\ pc \in {"images", "audio"} =>
                  \A k \in 1..Len(image_files) : fs[image_files[k]] = Placeholder
           /\ pc \in {"cleanup", "done"} =>
                  /\ Len(video.segments) = Len(prompts)
                  /\ \A k \in 1..Len(prompts) :
                         video.segments[k].img = Placeholder

C16_Witness ==
    /\ pc = "done"
    /\ result = output_path
    /\ environ.HF_API_KEY = None
    /\ self.headers.Authorization = "Bearer None"
    /\ Len(prompts) = 3
    /\ \A k \in 1..3 : calls.image[k].status_code = 401
    /\ \A k \in 1..3 : video.segments[k].img = Placeholder

\* C17: generate returns, and returns output_path, only after the video has
\* been written to output_path from N >= 1 image segments.
C17_ReturnsOnlyAfterAssembly ==
    /\ result # "" => pc = "done"
    /\ pc = "done" =>
           /\ result = output_path
           /\ error = ""
           /\ Len(image_files) >= 1
           /\ Len(video.segments) = Len(image_files)
           /\ video.audio # <<>>
           /\ \/ fs[output_path] = VideoFile
              \/ \E j \in 1..Len(removed) : removed[j].path = output_path

C17_Witness ==
    /\ pc = "done"
    /\ result = DefaultOutput
    /\ Len(video.segments) = 1
    /\ fs[DefaultOutput] = VideoFile
    /\ fs0[DefaultOutput] = Old

\* the numbered files beyond the N derived prompts are as they were before
\* the run, and os.remove was not called on them
BeyondUntouched ==
    \A k \in (Len(prompts) + 1)..(MaxPrompts + 1) :
        /\ fs[OutputFile(k)] = fs0[OutputFile(k)]
        /\ \A j \in 1..Len(removed) : removed[j].path # OutputFile(k)

\* whatever was at output_1.png .. output_N.png has been overwritten when the
\* loop over the prompts has ended
WithinOverwritten ==
    /\ pc = "images" => \A k \in 1..Len(image_files) : ImageWritten(k)
    /\ pc \in {"audio", "clips", "write"} =>
           \A k \in 1..Len(prompts) : ImageWritten(k)

\* C18 as stated: a run that derives N prompts leaves the numbered files of
\* index above N alone, overwrites what was at output_1.png .. output_N.png,
\* and a file that was there before the run is gone after the run returned.
C18_OnlyOwnFilesAndOldOnesRemoved ==
    /\ BeyondUntouched
    /\ WithinOverwritten
    /\ pc = "done" =>
           \A k \in 1..Len(prompts) :
               exists(OutputFile(k)) => fs0[OutputFile(k)] = Absent

\* C18 as amended: a run that derives N prompts leaves the numbered files of
\* index above N alone, overwrites what was at output_1.png .. output_N.png,
\* and after the run returned os.remove has been called on each of them, a
\* file that was there before the run being gone unless its os.remove raised.
C18_OnlyOwnFilesAndOldOnesRemovedUnlessRemoveFailed ==
    /\ BeyondUntouched
    /\ WithinOverwritten
    /\ pc = "done" =>
           \A k \in 1..Len(prompts) :
               /\ \E j \in 1..Len(removed) : removed[j].path = OutputFile(k)
               /\ (exists(OutputFile(k)) /\ fs0[OutputFile(k)] # Absent) =>
                      \E j \in 1..Len(removed) :
                          removed[j].path = OutputFile(k) /\ removed[j].raised

\* two prompts, with old files at output_1.png and beyond the prompts
C18_Witness ==
    /\ pc = "done"
    /\ Len(prompts) = 2
    /\ fs0[OutputFile(1)] = Old
    /\ ~exists(OutputFile(1))
    /\ ~exists(OutputFile(2))
    /\ fs0[OutputFile(MaxPrompts + 1)] = Old
    /\ fs[OutputFile(MaxPrompts + 1)] = Old

====
